---------------------------- MODULE Spec2Model ----------------------------
(***************************************************************************)
(* Pre-Delinquency Intervention Engine (src/app.py): the scoring,          *)
(* attribution, intervention, trend and impact-simulation core.            *)
(*                                                                         *)
(* Numbers.  The program computes in floats; the model computes the same   *)
(* expressions exactly, in integers:                                       *)
(*   - a percent signal (savings, discretionary, ATM) is held in           *)
(*     hundredths of a percent, the precision generate_data rounds to      *)
(*     (round(x, 2)): 20.01 % is 2001;                                     *)
(*   - a contribution and a risk score are held in units of 1/SCALE, the   *)
(*     least common denominator of the seven normalisation rules times     *)
(*     their weights, so that every product and sum below is exact:        *)
(*     0.40 is 240000 and 0.70 is 420000.                                  *)
(***************************************************************************)
EXTENDS Integers, Sequences, FiniteSets, TLC

VARIABLES
    pc,         \* which part of the script has run last
    row,        \* the customer-week row of df under study (generate_data)
    call,       \* the last call of an analytical helper on row, with its result
    cur_score,  \* the element of the risk_score column that .apply(_tier) is at
    cur_tier,   \* the tier _tier returned for cur_score
    group,      \* one customer's (week, risk_score) rows, as handed to the trend classifier
    risk_trend, \* the label _risk_trend_label returned for group
    sim,        \* the impact tab: tier counts, sidebar parameters, derived report
    view,       \* the customer tab: what it derives for the selected customer and week
    frames,     \* two data frames that hold one record in common, both scored
    portfolio   \* the portfolio tab: the latest snapshot and the case queue built from it

vars == <<pc, row, call, cur_score, cur_tier, group, risk_trend, sim, view, frames, portfolio>>

scoreVars == <<row, call>>
tierVars == <<cur_score, cur_tier>>
trendVars == <<group, risk_trend>>
impactVars == <<sim>>
viewVars == <<view>>
frameVars == <<frames>>
portfolioVars == <<portfolio>>

(***************************************************************************)
(* Bounds of the model                                                     *)
(***************************************************************************)
\* largest n handed to top_drivers (there are 7 features)
MaxN == 8
\* number of evenly spaced scores of [0, 1] the tier classifier is applied to
TierGridPoints == 120
\* largest number of weeks generate_data is asked for (n_weeks)
MaxWeeks == 4
\* number of sidebar sliders moved away from their defaults in one session
MaxEdits == 2
\* largest number of weeks of history of the customer in the customer tab
MaxHistory == 5
\* largest number of customers of the portfolio (n_customers)
MaxCustomers == 3

Min(a, b) == IF a <= b THEN a ELSE b
Max(a, b) == IF a >= b THEN a ELSE b

\* one risk-score unit is 1/SCALE
SCALE == 6 * 100000
\* one thousandth of a score, in units of 1/SCALE
MILLI == SCALE \div 1000

(***************************************************************************)
(* Constants (src/app.py 19-47)                                            *)
(***************************************************************************)
FEATURES ==
    << "salary_delay_days",
       "savings_drop_pct",
       "discretionary_spend_change_pct",
       "utility_payment_delay_days",
       "lending_app_upi_txn_count",
       "atm_withdrawal_spike_pct",
       "failed_autodebit" >>

FeatureSet == { FEATURES[i] : i \in 1..Len(FEATURES) }

\* the weights, in hundredths
WEIGHTS_salary_heavy ==
    [ salary_delay_days |-> 28,
      savings_drop_pct |-> 17,
      discretionary_spend_change_pct |-> 14,
      utility_payment_delay_days |-> 14,
      lending_app_upi_txn_count |-> 12,
      atm_withdrawal_spike_pct |-> 10,
      failed_autodebit |-> 15 ]

WEIGHTS ==
    [ salary_delay_days |-> 18,
      savings_drop_pct |-> 17,
      discretionary_spend_change_pct |-> 14,
      utility_payment_delay_days |-> 14,
      lending_app_upi_txn_count |-> 12,
      atm_withdrawal_spike_pct |-> 10,
      failed_autodebit |-> 15 ]

FEATURE_LABELS ==
    [ salary_delay_days |-> "Salary Delay Days",
      savings_drop_pct |-> "Savings Drop %",
      discretionary_spend_change_pct |-> "Discretionary Spend Change %",
      utility_payment_delay_days |-> "Utility Payment Delay Days",
      lending_app_upi_txn_count |-> "Lending-App UPI Txn Count",
      atm_withdrawal_spike_pct |-> "ATM Withdrawal Spike %",
      failed_autodebit |-> "Failed Autodebit" ]

(***************************************************************************)
(* Risk-scoring helpers (src/app.py 59-88)                                 *)
(***************************************************************************)
\* _clip(val, lo, hi) = max(lo, min(hi, val))
_clip(val, lo, hi) == Max(lo, Min(hi, val))

\* np.clip(a, lo, hi) = minimum(maximum(a, lo), hi)
np_clip(a, lo, hi) == Min(Max(a, lo), hi)

\* score thresholds of _tier, in score units: 0.4 and 0.7
TierLowBelow == (4 * SCALE) \div 10
TierMediumUpTo == (7 * SCALE) \div 10

_tier_closed_low(score) ==
    IF score <= TierLowBelow THEN "Low"
    ELSE IF score <= TierMediumUpTo THEN "Medium"
    ELSE "High"

_tier(score) ==
    IF score < TierLowBelow THEN "Low"
    ELSE IF score <= TierMediumUpTo THEN "Medium"
    ELSE "High"

\* the same without the lower clip: np.clip(..., None, 1)
Weighted_no_lower(num, den, f) == Min(num, den) * WEIGHTS[f] * (SCALE \div (100 * den))

\* np.clip(num / den, 0, 1) * WEIGHTS[f], in score units.  num / den clipped to
\* [0,1] is np_clip(num, 0, den) / den for den > 0; SCALE is a multiple of
\* 100 * den for each of the seven rules, so the division below is exact.
Weighted(num, den, f) == np_clip(num, 0, den) * WEIGHTS[f] * (SCALE \div (100 * den))

_risk_components(df) ==
    [ f \in FeatureSet |->
        CASE f = "salary_delay_days" -> Weighted(df[f] - 3, 4, f)
          [] f = "savings_drop_pct" -> Weighted(df[f] - 2000, 2000, f)
          [] f = "discretionary_spend_change_pct" -> Weighted(-4000 - df[f], 3000, f)
          [] f = "utility_payment_delay_days" -> Weighted(df[f] - 5, 5, f)
          [] f = "lending_app_upi_txn_count" -> Weighted(df[f] - 3, 5, f)
          [] f = "atm_withdrawal_spike_pct" -> Weighted(df[f] - 3000, 3000, f)
          [] f = "failed_autodebit" -> df[f] * WEIGHTS[f] * (SCALE \div 100) ]

RECURSIVE SumOver(_, _, _)
\* comp.sum(axis=1): the row's components added in column (FEATURES) order
SumOver(comp, cols, i) ==
    IF i > Len(cols) THEN 0 ELSE comp[cols[i]] + SumOver(comp, cols, i + 1)

RowSum(comp) == SumOver(comp, FEATURES, 1)


(***************************************************************************)
(* Data generation (src/app.py 95-159)                                     *)
(*                                                                         *)
(* generate_data draws the seven raw signals of a customer-week at random, *)
(* clips each to its range and rounds the percents to 2 decimals.  The     *)
(* model draws the values before clipping from grids that hold, for each   *)
(* signal, a value outside its range on either side and values around the  *)
(* thresholds of its normalisation rule.  The ATM grid makes the composite *)
(* score land exactly on, just below and just above the tier boundaries.   *)
(***************************************************************************)
SalaryDraws == {-1, 3, 4, 9}
SavingsDraws == {-800, 2001, 3000, 4500}
DiscretionaryDraws == {3500, -5500, -7500}
UtilityDraws == {0, 7, 12}
LendingDraws == {0, 2, 3, 9}
AtmDraws == {-100, 4800, 4801, 5099, 5100, 7000}
FailedAutodebitDraws == {0, 1}

Draws ==
    [ salary_delay_days : SalaryDraws,
      savings_drop_pct : SavingsDraws,
      discretionary_spend_change_pct : DiscretionaryDraws,
      utility_payment_delay_days : UtilityDraws,
      lending_app_upi_txn_count : LendingDraws,
      atm_withdrawal_spike_pct : AtmDraws,
      failed_autodebit : FailedAutodebitDraws ]

\* lines 115-149: the clipped signals, as rows.append({...}) stores them
ClippedRow(d) ==
    [ salary_delay_days |-> _clip(d.salary_delay_days, 0, 7),
      savings_drop_pct |-> _clip(d.savings_drop_pct, -500, 4000),
      discretionary_spend_change_pct |-> _clip(d.discretionary_spend_change_pct, -7000, 3000),
      utility_payment_delay_days |-> _clip(d.utility_payment_delay_days, 0, 10),
      lending_app_upi_txn_count |-> _clip(d.lending_app_upi_txn_count, 0, 8),
      atm_withdrawal_spike_pct |-> _clip(d.atm_withdrawal_spike_pct, 0, 6000),
      failed_autodebit |-> d.failed_autodebit ]

\* comp.sum(axis=1).clip(0, 1)
ScoreClip(total) == np_clip(total, 0, SCALE)

\* lines 151-157: the scored row, with its contrib_<feature> columns
ScoredRow(raw) ==
    LET comp == _risk_components(raw)
        risk_score == ScoreClip(RowSum(comp))
    IN  [ salary_delay_days |-> raw.salary_delay_days,
          savings_drop_pct |-> raw.savings_drop_pct,
          discretionary_spend_change_pct |-> raw.discretionary_spend_change_pct,
          utility_payment_delay_days |-> raw.utility_payment_delay_days,
          lending_app_upi_txn_count |-> raw.lending_app_upi_txn_count,
          atm_withdrawal_spike_pct |-> raw.atm_withdrawal_spike_pct,
          failed_autodebit |-> raw.failed_autodebit,
          risk_score |-> risk_score,
          risk_tier |-> _tier(risk_score),
          contrib |-> comp ]

NoRow == [ risk_tier |-> "none" ]
NoCall == [ fn |-> "none" ]

(***************************************************************************)
(* Analytical helpers (src/app.py 165-231)                                 *)
(***************************************************************************)
\* pairs[:n+1]: an off-by-one slice
PySlicePrefix_plus_one(s, n) == SubSeq(s, 1, Min(n + 1, Len(s)))

\* pairs[:n] of Python: the first n items for n >= 0, all but the last -n for n < 0
PySlicePrefix(s, n) ==
    IF n >= 0 THEN SubSeq(s, 1, Min(n, Len(s)))
    ELSE SubSeq(s, 1, Max(Len(s) + n, 0))

RECURSIVE InsertDesc_ties_first(_, _)
\* an insertion that puts p before the items of equal key (an unstable sort)
InsertDesc_ties_first(sorted, p) ==
    IF sorted = <<>> THEN <<p>>
    ELSE IF Head(sorted)[2] > p[2] THEN <<Head(sorted)>> \o InsertDesc_ties_first(Tail(sorted), p)
    ELSE <<p>> \o sorted

RECURSIVE InsertDesc(_, _)
\* p placed after every item whose key is >= its own: items of equal key keep
\* the order in which they arrive, which is what makes the sort stable
InsertDesc(sorted, p) ==
    IF sorted = <<>> THEN <<p>>
    ELSE IF Head(sorted)[2] >= p[2] THEN <<Head(sorted)>> \o InsertDesc(Tail(sorted), p)
    ELSE <<p>> \o sorted

RECURSIVE SortedDescFrom(_, _, _)
SortedDescFrom(pairs, i, acc) ==
    IF i > Len(pairs) THEN acc
    ELSE SortedDescFrom(pairs, i + 1, InsertDesc(acc, pairs[i]))

\* sorted(pairs, key=lambda x: x[1], reverse=True): Python's sort is stable, and
\* reverse=True keeps the original order of items with equal keys
SortedDesc(pairs) == SortedDescFrom(pairs, 1, <<>>)

top_drivers(r, n) ==
    LET pairs == [ i \in 1..Len(FEATURES) |-> <<FEATURES[i], r.contrib[FEATURES[i]]>> ]
    IN  PySlicePrefix(SortedDesc(pairs), n)

\* the engine with the autodebit rule tested before the salary/savings rule
intervention_engine_autodebit_first(r, driver_labels) ==
    LET action ==
            IF r.failed_autodebit = 1
                THEN "Immediate proactive outreach + payment retry scheduling"
            ELSE IF r.salary_delay_days > 3 /\ r.savings_drop_pct > 2000
                THEN "Offer EMI date shift / short grace period"
            ELSE IF r.lending_app_upi_txn_count >= 3
                THEN "Offer restructuring / lower-cost credit line"
            ELSE IF r.risk_tier = "Medium" THEN "Soft nudge + budgeting tips"
            ELSE IF r.risk_tier = "High"
                THEN "Priority relationship-manager outreach with repayment planning"
            ELSE "Continue monitoring"
    IN  [ action |-> action, rationale |-> PySlicePrefix(driver_labels, 2) ]

\* the engine without its tier rules
intervention_engine_no_tier_rules(r, driver_labels) ==
    LET action ==
            IF r.salary_delay_days > 3 /\ r.savings_drop_pct > 2000
                THEN "Offer EMI date shift / short grace period"
            ELSE IF r.failed_autodebit = 1
                THEN "Immediate proactive outreach + payment retry scheduling"
            ELSE IF r.lending_app_upi_txn_count >= 3
                THEN "Offer restructuring / lower-cost credit line"
            ELSE "Continue monitoring"
    IN  [ action |-> action, rationale |-> PySlicePrefix(driver_labels, 2) ]

\* the engine with a rationale that joins every label it is handed
intervention_engine_all_labels(r, driver_labels) ==
    LET action ==
            IF r.salary_delay_days > 3 /\ r.savings_drop_pct > 2000
                THEN "Offer EMI date shift / short grace period"
            ELSE IF r.failed_autodebit = 1
                THEN "Immediate proactive outreach + payment retry scheduling"
            ELSE IF r.lending_app_upi_txn_count >= 3
                THEN "Offer restructuring / lower-cost credit line"
            ELSE IF r.risk_tier = "Medium" THEN "Soft nudge + budgeting tips"
            ELSE IF r.risk_tier = "High"
                THEN "Priority relationship-manager outreach with repayment planning"
            ELSE "Continue monitoring"
    IN  [ action |-> action, rationale |-> driver_labels ]

\* (action, message, rationale); the message is a fixed text per action and is
\* left out; the rationale is held as the labels it joins, driver_labels[:2]
intervention_engine(r, driver_labels) ==
    LET action ==
            IF r.salary_delay_days > 3 /\ r.savings_drop_pct > 2000
                THEN "Offer EMI date shift / short grace period"
            ELSE IF r.failed_autodebit = 1
                THEN "Immediate proactive outreach + payment retry scheduling"
            ELSE IF r.lending_app_upi_txn_count >= 3
                THEN "Offer restructuring / lower-cost credit line"
            ELSE IF r.risk_tier = "Medium" THEN "Soft nudge + budgeting tips"
            ELSE IF r.risk_tier = "High"
                THEN "Priority relationship-manager outreach with repayment planning"
            ELSE "Continue monitoring"
    IN  [ action |-> action, rationale |-> PySlicePrefix(driver_labels, 2) ]

(***************************************************************************)
(* Trend classifier (src/app.py 187-194)                                   *)
(*                                                                         *)
(* A slope is held as a fraction num / den of score units per week, with   *)
(* den > 0.                                                                *)
(***************************************************************************)
RECURSIVE InsertByWeek(_, _)
InsertByWeek(sorted, r) ==
    IF sorted = <<>> THEN <<r>>
    ELSE IF Head(sorted).week <= r.week THEN <<Head(sorted)>> \o InsertByWeek(Tail(sorted), r)
    ELSE <<r>> \o sorted

RECURSIVE SortByWeekFrom(_, _, _)
SortByWeekFrom(g, i, acc) ==
    IF i > Len(g) THEN acc ELSE SortByWeekFrom(g, i + 1, InsertByWeek(acc, g[i]))

\* rows left in the order they were given
sort_values_week_as_given(g) == g

\* group.sort_values("week"); a customer's weeks are distinct
sort_values_week(g) == SortByWeekFrom(g, 1, <<>>)

\* .tail(k): the last k rows, all of them when there are fewer
tail(g, k) == SubSeq(g, Max(1, Len(g) - k + 1), Len(g))

RECURSIVE SeqSum(_, _)
\* the sum of a sequence of numbers, from index i on
SeqSum(xs, i) == IF i > Len(xs) THEN 0 ELSE xs[i] + SeqSum(xs, i + 1)

\* np.polyfit(x, y, 1)[0], the least-squares slope of y against x.
\*   - two or more points with distinct x: (n Sxy - Sx Sy) / (n Sxx - Sx^2);
\*   - one point (x, y): the system is rank-deficient; polyfit scales the columns
\*     of the Vandermonde matrix [x 1] to unit norm and numpy.linalg.lstsq returns
\*     the minimum-norm solution, whose slope is y / (2 x) (it warns, it does not
\*     raise).
polyfit_slope(recent) ==
    LET n == Len(recent)
        Sx == SeqSum([ i \in 1..n |-> recent[i].week ], 1)
        Sy == SeqSum([ i \in 1..n |-> recent[i].risk_score ], 1)
        Sxy == SeqSum([ i \in 1..n |-> recent[i].week * recent[i].risk_score ], 1)
        Sxx == SeqSum([ i \in 1..n |-> recent[i].week * recent[i].week ], 1)
    IN  IF n = 1
        THEN [ num |-> recent[1].risk_score, den |-> 2 * recent[1].week ]
        ELSE [ num |-> n * Sxy - Sx * Sy, den |-> n * Sxx - Sx * Sx ]

\* 0.015 score per week, as a fraction of SCALE: 0.015 = 3 / 200
SlopeThreshold(den) == 3 * den * (SCALE \div 200)

\* a classifier whose thresholds are inclusive
_risk_trend_label_inclusive(g) ==
    LET recent == tail(sort_values_week(g), 3)
        slope == polyfit_slope(recent)
    IN  IF slope.num >= SlopeThreshold(slope.den) THEN "Rising"
        ELSE IF slope.num <= -SlopeThreshold(slope.den) THEN "Falling"
        ELSE "Stable"

_risk_trend_label(g) ==
    LET recent == tail(sort_values_week(g), 3)
        slope == polyfit_slope(recent)
    IN  IF slope.num > SlopeThreshold(slope.den) THEN "Rising"
        ELSE IF slope.num < -SlopeThreshold(slope.den) THEN "Falling"
        ELSE "Stable"

\* a channel choice that sends Medium customers nothing
customer_channel_no_sms(tier) ==
    IF tier = "High" THEN "Phone call + In-app notification" ELSE "Monitor only"

\* render_customer_tab, lines 1072-1077
customer_channel(tier) ==
    IF tier = "High" THEN "Phone call + In-app notification"
    ELSE IF tier = "Medium" THEN "In-app notification + SMS"
    ELSE "Monitor only"

\* render_portfolio_tab, line 825: every row of the case queue
queue_channel == "Phone + In-app"

\* Series.round(3): to the nearest thousandth, a tie to the even one
Round3(score) ==
    LET q == score \div MILLI
        r == score % MILLI
    IN  IF 2 * r < MILLI THEN q * MILLI
        ELSE IF 2 * r > MILLI THEN (q + 1) * MILLI
        ELSE IF q % 2 = 0 THEN q * MILLI
        ELSE (q + 1) * MILLI

\* risk scores the customer of the row may have had in the two weeks before
PriorScores == { 0, SCALE }

\* latest_snapshot, for the customer whose latest-week row is r and whose two
\* weeks before it scored prior[1] and prior[2]; the tier is the column
\* generate_data stored, the score is rounded after it
latest_snapshot_row(r, prior) ==
    [ risk_score |-> Round3(r.risk_score),
      risk_tier |-> r.risk_tier,
      risk_trend |-> _risk_trend_label(<<[ week |-> 1, risk_score |-> prior[1] ],
                                         [ week |-> 2, risk_score |-> prior[2] ],
                                         [ week |-> 3, risk_score |-> r.risk_score ]>>),
      top_reason |-> FEATURE_LABELS[top_drivers(r, 1)[1][1]] ]

(***************************************************************************)
(* The scoring pipeline as a state machine                                 *)
(***************************************************************************)
ScoreIdle == row = NoRow /\ call = NoCall
TierIdle == cur_score = 0 /\ cur_tier = "none"
TrendIdle == group = <<>> /\ risk_trend = "none"
ImpactIdle == sim = [ rendered |-> FALSE ]
ViewIdle == view = [ rendered |-> FALSE ]
FrameIdle == frames = <<>>
PortfolioIdle == portfolio = [ rendered |-> FALSE ]

InitScore ==
    /\ pc = "start"
    /\ PortfolioIdle
    /\ ViewIdle
    /\ FrameIdle
    /\ row = NoRow
    /\ call = NoCall
    /\ TierIdle
    /\ TrendIdle
    /\ ImpactIdle

\* df = generate_data() (line 1707; cached, so it runs once): one customer-week
\* is drawn and scored
GenerateData ==
    /\ pc = "start"
    /\ \E d \in Draws : row' = ScoredRow(ClippedRow(d))
    /\ call' = NoCall
    /\ pc' = "generated"
    /\ UNCHANGED <<tierVars, trendVars, impactVars, viewVars, frameVars, portfolioVars>>

\* Streamlit reruns the script from the cached df on every interaction, and the
\* helpers keep nothing between calls: each call below starts from the
\* generated row.
\*
\* top_drivers(row, n), as latest_snapshot (n = 1), build_hover_drivers (n = 2)
\* and the tabs call it
TopDrivers ==
    /\ pc = "generated"
    /\ \E n \in 0..MaxN :
          call' = [ fn |-> "top_drivers", n |-> n, result |-> top_drivers(row, n) ]
    /\ pc' = "attributed"
    /\ UNCHANGED <<row, tierVars, trendVars, impactVars, viewVars, frameVars, portfolioVars>>

\* render_customer_tab, lines 878-879 and 1071: the top 3 drivers' labels go to
\* the intervention engine
CustomerRecommendation ==
    /\ pc = "generated"
    /\ LET selected_top3 == top_drivers(row, 3)
           selected_driver_labels ==
               [ i \in 1..Len(selected_top3) |-> FEATURE_LABELS[selected_top3[i][1]] ]
       IN  call' = [ fn |-> "intervention_engine",
                     caller |-> "customer",
                     passed |-> selected_driver_labels,
                     result |-> intervention_engine(row, selected_driver_labels),
                     channel |-> customer_channel(row.risk_tier) ]
    /\ pc' = "recommended"
    /\ UNCHANGED <<row, tierVars, trendVars, impactVars, viewVars, frameVars, portfolioVars>>

\* latest = latest_snapshot(df) (line 1708), the row of the one customer
LatestSnapshot ==
    /\ pc = "generated"
    /\ \E prior \in PriorScores \X PriorScores :
          call' = [ fn |-> "latest_snapshot",
                    prior |-> prior,
                    result |-> latest_snapshot_row(row, prior) ]
    /\ pc' = "snapshot"
    /\ UNCHANGED <<row, tierVars, trendVars, impactVars, viewVars, frameVars, portfolioVars>>

\* render_portfolio_tab, lines 810-837: the case-queue row of a customer whose
\* snapshot tier is High
QueueRow ==
    /\ pc = "snapshot"
    /\ call.result.risk_tier = "High"
    /\ LET snap_row == call.result
           drivers == top_drivers(row, 2)
           driver_labels == [ i \in 1..Len(drivers) |-> FEATURE_LABELS[drivers[i][1]] ]
       IN  call' = [ fn |-> "intervention_engine",
                     caller |-> "queue",
                     passed |-> driver_labels,
                     result |-> intervention_engine(row, driver_labels),
                     channel |-> queue_channel,
                     priority |-> IF snap_row.risk_trend = "Rising" THEN "P1" ELSE "P2",
                     snap_row |-> snap_row ]
    /\ pc' = "queued"
    /\ UNCHANGED <<row, tierVars, trendVars, impactVars, viewVars, frameVars, portfolioVars>>

NextScore ==
    GenerateData \/ TopDrivers \/ CustomerRecommendation \/ LatestSnapshot \/ QueueRow

SpecScore == InitScore /\ [][NextScore]_vars

(***************************************************************************)
(* Properties of the scoring pipeline                                      *)
(***************************************************************************)
Scored == row # NoRow
FeatureIndex(f) == CHOOSE i \in 1..Len(FEATURES) : FEATURES[i] = f
\* a weight in score units
WeightUnits(f) == WEIGHTS[f] * (SCALE \div 100)

\* C1: every contribution of a scored in-domain record lies in [0, weight of its
\* signal], and the risk score lies in [0, 1], both ends included.
C1_ContributionsAndScoreBounded ==
    Scored =>
        /\ \A f \in FeatureSet : 0 <= row.contrib[f] /\ row.contrib[f] <= WeightUnits(f)
        /\ 0 <= row.risk_score /\ row.risk_score <= SCALE

\* a record at every saturation point: each contribution equals its weight and
\* the score is exactly 1
C1_Witness ==
    /\ Scored
    /\ \A f \in FeatureSet : row.contrib[f] = WeightUnits(f)
    /\ row.risk_score = SCALE

\* C2: the stored contributions sum exactly to the stored risk score: the
\* weights sum to 1, the unclamped sum stays within [0, 1], and so the
\* clip(0, 1) leaves it as it is.
C2_ContributionsSumToScore ==
    /\ SumOver(WEIGHTS, FEATURES, 1) = 100
    /\ Scored =>
          /\ RowSum(row.contrib) = row.risk_score
          /\ 0 <= RowSum(row.contrib) /\ RowSum(row.contrib) <= SCALE

\* the sum reaches the clip's upper end
C2_Witness ==
    /\ Scored
    /\ RowSum(row.contrib) = SCALE
    /\ row.risk_score = SCALE

Rule1(r) == r.salary_delay_days > 3 /\ r.savings_drop_pct > 2000
Rule2(r) == r.failed_autodebit = 1
Rule3(r) == r.lending_app_upi_txn_count >= 3
Rule4(r) == r.risk_tier = "Medium"
Rule5(r) == r.risk_tier = "High"
Recommended == call.fn = "intervention_engine"

\* C4: the six rules are evaluated in priority order and the first that matches
\* decides the action; exactly one action is returned; a lower-priority rule
\* never decides when a higher-priority rule's predicate holds.
C4_FirstMatchingRuleWins ==
    Recommended =>
        LET a == call.result.action IN
        /\ Rule1(row) => a = "Offer EMI date shift / short grace period"
        /\ ~Rule1(row) /\ Rule2(row)
              => a = "Immediate proactive outreach + payment retry scheduling"
        /\ ~Rule1(row) /\ ~Rule2(row) /\ Rule3(row)
              => a = "Offer restructuring / lower-cost credit line"
        /\ ~Rule1(row) /\ ~Rule2(row) /\ ~Rule3(row) /\ Rule4(row)
              => a = "Soft nudge + budgeting tips"
        /\ ~Rule1(row) /\ ~Rule2(row) /\ ~Rule3(row) /\ ~Rule4(row) /\ Rule5(row)
              => a = "Priority relationship-manager outreach with repayment planning"
        /\ ~Rule1(row) /\ ~Rule2(row) /\ ~Rule3(row) /\ ~Rule4(row) /\ ~Rule5(row)
              => a = "Continue monitoring"

\* a record on which rules 1, 2, 3 and 5 all match, decided by rule 1
C4_Witness ==
    /\ Recommended
    /\ Rule1(row) /\ Rule2(row) /\ Rule3(row) /\ Rule5(row)
    /\ call.result.action = "Offer EMI date shift / short grace period"

\* C5: 'Continue monitoring' is returned only for a Low-tier record on which
\* none of the three signal rules matches.
C5_ContinueMonitoringOnlyForQuietLow ==
    (Recommended /\ call.result.action = "Continue monitoring") =>
        /\ row.risk_tier = "Low"
        /\ ~(row.salary_delay_days > 3 /\ row.savings_drop_pct > 2000)
        /\ row.failed_autodebit # 1
        /\ row.lending_app_upi_txn_count < 3

\* 'Continue monitoring' returned for a record whose score is not 0
C5_Witness ==
    /\ Recommended
    /\ call.result.action = "Continue monitoring"
    /\ row.risk_score > 0

Attributed == call.fn = "top_drivers"
Returned(result) == { result[i][1] : i \in 1..Len(result) }

\* C8: top_drivers(row, n) returns min(n, 7) pairs, their names distinct
\* features, each paired with that feature's contribution, in non-increasing
\* order of contribution, and no feature left out contributes more than a
\* feature returned.
C8_TopDriversSortedPrefix ==
    Attributed =>
        LET res == call.result IN
        /\ Len(res) = Min(call.n, 7)
        /\ \A i \in 1..Len(res) :
              res[i][1] \in FeatureSet /\ res[i][2] = row.contrib[res[i][1]]
        /\ \A i, j \in 1..Len(res) : i # j => res[i][1] # res[j][1]
        /\ \A i, j \in 1..Len(res) : i < j => res[i][2] >= res[j][2]
        /\ \A f \in FeatureSet \ Returned(res) :
              \A i \in 1..Len(res) : row.contrib[f] <= res[i][2]

\* three drivers of strictly decreasing contribution, with a fourth, smaller,
\* positive contribution left out
C8_Witness ==
    /\ Attributed
    /\ call.n = 3
    /\ Len(call.result) = 3
    /\ call.result[1][2] > call.result[2][2]
    /\ call.result[2][2] > call.result[3][2]
    /\ \E f \in FeatureSet \ Returned(call.result) :
          row.contrib[f] > 0 /\ row.contrib[f] < call.result[3][2]

\* C9: signals of exactly equal contribution are returned in their FEATURES
\* order: a feature declared before a returned feature of the same
\* contribution is returned too, and before it.
C9_TiesInDeclarationOrder ==
    Attributed =>
        LET res == call.result IN
        \A i \in 1..Len(res) :
            \A g \in FeatureSet :
                (row.contrib[g] = res[i][2] /\ FeatureIndex(g) < FeatureIndex(res[i][1]))
                    => \E k \in 1..(i - 1) : res[k][1] = g

\* a tie between two non-zero contributions (discretionary and utility, both at
\* their weight 0.14) and a tie between zeros, all returned
C9_Witness ==
    /\ Attributed
    /\ call.n = 7
    /\ row.contrib["discretionary_spend_change_pct"] = WeightUnits("discretionary_spend_change_pct")
    /\ row.contrib["utility_payment_delay_days"] = WeightUnits("utility_payment_delay_days")
    /\ row.contrib["salary_delay_days"] = 0
    /\ row.contrib["failed_autodebit"] = 0
    /\ \E i \in 1..6 :
          /\ call.result[i][1] = "discretionary_spend_change_pct"
          /\ call.result[i + 1][1] = "utility_payment_delay_days"

\* what a channel text stands for: the queue and the customer view word the
\* High channel differently
ChannelKind(channel) ==
    CASE channel \in { "Phone call + In-app notification", "Phone + In-app" } -> "phone + in-app"
      [] channel = "In-app notification + SMS" -> "in-app + SMS"
      [] channel = "Monitor only" -> "monitor only"
      [] OTHER -> "unknown"

\* the channel the tier calls for
TierChannel(tier) ==
    CASE tier = "High" -> "phone + in-app"
      [] tier = "Medium" -> "in-app + SMS"
      [] tier = "Low" -> "monitor only"

\* C14: the outreach channel depends only on the tier (High phone + in-app,
\* Medium in-app + SMS, Low monitor only), whatever the raw signals and
\* whichever rule fired, in the customer view and in the case queue.
C14_ChannelFollowsTier ==
    Recommended => ChannelKind(call.channel) = TierChannel(row.risk_tier)

\* a Medium customer whose recommendation comes from the autodebit rule, not
\* from the Medium rule
C14_Witness ==
    /\ Recommended
    /\ call.caller = "customer"
    /\ row.risk_tier = "Medium"
    /\ call.result.action = "Immediate proactive outreach + payment retry scheduling"
    /\ call.channel = "In-app notification + SMS"

\* f is ranked before g: a larger contribution, or an equal one and an earlier
\* place in FEATURES
RankedBefore(f, g) ==
    \/ row.contrib[f] > row.contrib[g]
    \/ row.contrib[f] = row.contrib[g] /\ FeatureIndex(f) < FeatureIndex(g)

\* the label of the driver with k drivers ranked before it
DriverLabel(k) ==
    FEATURE_LABELS[CHOOSE f \in FeatureSet :
                       Cardinality({ g \in FeatureSet : RankedBefore(g, f) }) = k]

\* C15: the rationale names exactly the two highest-ranked drivers of the
\* customer-week, whichever rule fired and whether the caller passed the top-2
\* labels (case queue) or the top-3 labels (customer view); top_drivers(row, 2)
\* is the prefix of top_drivers(row, 3).
C15_RationaleNamesTopTwo ==
    Recommended =>
        /\ call.result.rationale = <<DriverLabel(0), DriverLabel(1)>>
        /\ call.caller = "customer" => Len(call.passed) = 3
        /\ call.caller = "queue" => Len(call.passed) = 2
        /\ top_drivers(row, 2) = SubSeq(top_drivers(row, 3), 1, 2)

\* the customer view passes three labels and the tier rule for Medium fires
C15_Witness ==
    /\ Recommended
    /\ call.caller = "customer"
    /\ Len(call.passed) = 3
    /\ call.passed[3] # call.passed[2]
    /\ call.result.action = "Soft nudge + budgeting tips"
    /\ Len(call.result.rationale) = 2

\* C16: in every row of the latest-week snapshot the tier is the tier
\* classifier applied to that row's risk_score as the snapshot holds it, rounded
\* to 3 decimals: no row shows 0.400 with Low or 0.700 with High.
C16_SnapshotTierMatchesRoundedScore ==
    call.fn = "latest_snapshot" => call.result.risk_tier = _tier(call.result.risk_score)

\* C20: every Low-tier customer-week is recommended "Continue monitoring".
C20_LowTierContinuesMonitoring ==
    (Recommended /\ row.risk_tier = "Low") => call.result.action = "Continue monitoring"

(***************************************************************************)
(* The scoring block handed records that did not pass through              *)
(* generate_data's clips (src/app.py 71-88, 151-157)                       *)
(***************************************************************************)
\* signal records a feed may supply, some with negative day or transaction counts
FeedRecords ==
    [ salary_delay_days : { -2, 0, 5 },
      savings_drop_pct : { 0, 3000 },
      discretionary_spend_change_pct : { 0, -5500 },
      utility_payment_delay_days : { -1, 0, 6 },
      lending_app_upi_txn_count : { -3, 0, 4 },
      atm_withdrawal_spike_pct : { 0, 4500 },
      failed_autodebit : { 0, 1 } ]

InitFeed ==
    /\ pc = "start"
    /\ PortfolioIdle
    /\ ViewIdle
    /\ FrameIdle
    /\ ScoreIdle
    /\ TierIdle
    /\ TrendIdle
    /\ ImpactIdle

\* lines 151-157 on a frame with the one record: _risk_components, the clipped
\* sum, _tier and the contrib columns; nothing is tested before or after
ScoreFeed ==
    /\ pc = "start"
    /\ \E record \in FeedRecords :
          /\ call' = [ fn |-> "_risk_components", record |-> record ]
          /\ row' = ScoredRow(record)
    /\ pc' = "fed"
    /\ UNCHANGED <<tierVars, trendVars, impactVars, viewVars, frameVars, portfolioVars>>

NextFeed == ScoreFeed

SpecFeed == InitFeed /\ [][NextFeed]_vars

\* the day and transaction counts of a Signal Record are not negative
InDomain(record) ==
    /\ record.salary_delay_days >= 0
    /\ record.utility_payment_delay_days >= 0
    /\ record.lending_app_upi_txn_count >= 0

\* C17: a Signal Record that is out of domain (a negative salary_delay_days,
\* utility_payment_delay_days or lending_app_upi_txn_count) is rejected before
\* scoring: no score, tier or contribution is produced for it.
C17_OutOfDomainRejected ==
    (pc = "fed" /\ ~InDomain(call.record)) => row = NoRow

(***************************************************************************)
(* One record scored inside two different data frames (src/app.py 151-157, *)
(* 876-879, 1071)                                                          *)
(***************************************************************************)
\* records of a frame
FrameRecords ==
    [ salary_delay_days : { 0, 5 },
      savings_drop_pct : { 0, 3000 },
      discretionary_spend_change_pct : { 0 },
      utility_payment_delay_days : { 0, 6 },
      lending_app_upi_txn_count : { 0, 4 },
      atm_withdrawal_spike_pct : { 0 },
      failed_autodebit : { 0, 1 } ]

\* records of the other customers of a frame
OtherRecords ==
    { record \in FrameRecords : record.savings_drop_pct = 3000 /\ record.lending_app_upi_txn_count = 0 }

RECURSIVE FrameMin(_, _)
\* the smallest risk_score of the rows from index i on
FrameMin(rows, i) ==
    IF i = Len(rows) THEN rows[i].risk_score
    ELSE Min(rows[i].risk_score, FrameMin(rows, i + 1))

\* scoring that rebases every score on the lowest score of the frame
ScoreFrame_rebased(records) ==
    LET rows == [ i \in 1..Len(records) |-> ScoredRow(records[i]) ]
    IN  [ i \in 1..Len(records) |->
            [ rows[i] EXCEPT !.risk_score = @ - FrameMin(rows, 1),
                             !.risk_tier = _tier(rows[i].risk_score - FrameMin(rows, 1)) ] ]

\* lines 151-157 on a frame of several records: the column arithmetic of
\* _risk_components is elementwise and comp.sum(axis=1) adds along each row
ScoreFrame(records) == [ i \in 1..Len(records) |-> ScoredRow(records[i]) ]

\* render_customer_tab, lines 876-879 and 1071: the row of the selected customer
\* and the recommendation for it
SelectedRecommendation(df, at) ==
    LET selected_row == df[at]
        selected_top3 == top_drivers(selected_row, 3)
        selected_driver_labels ==
            [ i \in 1..Len(selected_top3) |-> FEATURE_LABELS[selected_top3[i][1]] ]
    IN  [ selected_row |-> selected_row,
          recommendation |-> intervention_engine(selected_row, selected_driver_labels) ]

InitFrame ==
    /\ pc = "start"
    /\ PortfolioIdle
    /\ ViewIdle
    /\ FrameIdle
    /\ ScoreIdle
    /\ TierIdle
    /\ TrendIdle
    /\ ImpactIdle

\* the same record scored as the first row of one frame and as the second row
\* of another, next to different records of other customers
ScoreFrames ==
    /\ pc = "start"
    /\ \E record \in FrameRecords, other_a \in OtherRecords, other_b \in OtherRecords :
          frames' = [ record |-> record,
                      a |-> [ others |-> <<other_a>>,
                              out |-> SelectedRecommendation(ScoreFrame(<<record, other_a>>), 1) ],
                      b |-> [ others |-> <<other_b>>,
                              out |-> SelectedRecommendation(ScoreFrame(<<other_b, record>>), 2) ] ]
    /\ pc' = "frames"
    /\ UNCHANGED <<scoreVars, tierVars, trendVars, impactVars, viewVars, portfolioVars>>

NextFrame == ScoreFrames

SpecFrame == InitFrame /\ [][NextFrame]_vars

\* C19: score, tier, contributions and recommendation of a record are the
\* same in two frames that hold it next to different records of other
\* customers (and at a different place), and the same when the other records
\* are the same, that is when they are computed twice.
C19_IndependentOfOtherRecords ==
    pc = "frames" =>
        /\ frames.a.out.selected_row.risk_score = frames.b.out.selected_row.risk_score
        /\ frames.a.out.selected_row.risk_tier = frames.b.out.selected_row.risk_tier
        /\ frames.a.out.selected_row.contrib = frames.b.out.selected_row.contrib
        /\ frames.a.out.recommendation = frames.b.out.recommendation

\* a Low record next to a quieter customer in one frame and next to a far more
\* stressed one in the other
C19_Witness ==
    /\ pc = "frames"
    /\ frames.a.others # frames.b.others
    /\ frames.a.others[1].failed_autodebit = 0
    /\ frames.b.others[1].failed_autodebit = 1
    /\ frames.b.others[1].salary_delay_days = 5
    /\ frames.record.lending_app_upi_txn_count = 4
    /\ frames.a.out.selected_row.risk_tier = "Low"
    /\ frames.a.out.recommendation.action = "Offer restructuring / lower-cost credit line"

(***************************************************************************)
(* The tier classifier applied down a column of scores                     *)
(* (src/app.py 154, df["risk_score"].apply(_tier), and 1158)               *)
(***************************************************************************)
\* the scores of the column: an even grid over [0, 1], the two boundaries and
\* the scores one unit to either side of each
TierScores ==
    { k * (SCALE \div TierGridPoints) : k \in 0..TierGridPoints }
        \cup { TierLowBelow - 1, TierLowBelow, TierLowBelow + 1,
               TierMediumUpTo - 1, TierMediumUpTo, TierMediumUpTo + 1, SCALE }

InitTier ==
    /\ pc = "apply"
    /\ PortfolioIdle
    /\ ViewIdle
    /\ FrameIdle
    /\ cur_score \in TierScores
    /\ cur_tier = _tier(cur_score)
    /\ ScoreIdle
    /\ TrendIdle
    /\ ImpactIdle

\* .apply moves to the next element of the column and classifies it
ApplyTier ==
    /\ pc = "apply"
    /\ \E s \in TierScores : cur_score' = s /\ cur_tier' = _tier(s)
    /\ UNCHANGED <<pc, scoreVars, trendVars, impactVars, viewVars, frameVars, portfolioVars>>

NextTier == ApplyTier

SpecTier == InitTier /\ [][NextTier]_vars

TierRank(t) == CASE t = "Low" -> 1 [] t = "Medium" -> 2 [] t = "High" -> 3

\* C3: _tier is Low below 0.40, Medium from 0.40 to 0.70 inclusive and High
\* above 0.70, and it is monotonic: of two scores classified one after the
\* other, the larger never gets the lower cur_tier.
C3_TierBoundariesAndMonotonic ==
    /\ [](/\ cur_tier = "Low" <=> cur_score < TierLowBelow
          /\ cur_tier = "Medium" <=> (TierLowBelow <= cur_score /\ cur_score <= TierMediumUpTo)
          /\ cur_tier = "High" <=> cur_score > TierMediumUpTo)
    /\ [][cur_score' >= cur_score => TierRank(cur_tier') >= TierRank(cur_tier)]_vars

\* the cur_score 0.40 itself, classified Medium
C3_Witness == cur_score = TierLowBelow /\ cur_tier = "Medium"

(***************************************************************************)
(* The trend classifier as a state machine                                 *)
(***************************************************************************)
\* risk scores a customer's weeks may carry
TrendScores == { 0, 6000, 18000, 18020, 300000 }

\* the (week, risk_score) rows of one customer, weeks 1..n_weeks in the order
\* generate_data appends them
Groups(n_weeks) ==
    { [ w \in 1..n_weeks |-> [ week |-> w, risk_score |-> f[w] ] ] :
        f \in [ 1..n_weeks -> TrendScores ] }

InitTrend ==
    /\ pc = "start"
    /\ PortfolioIdle
    /\ ViewIdle
    /\ FrameIdle
    /\ TrendIdle
    /\ ScoreIdle
    /\ TierIdle
    /\ ImpactIdle

\* latest_snapshot, line 201: groupby("customer_id").apply(_risk_trend_label),
\* for one customer of a df generated with n_weeks weeks
SnapshotTrend ==
    /\ pc = "start"
    /\ \E n_weeks \in 1..MaxWeeks :
          \E g \in Groups(n_weeks) :
              /\ group' = g
              /\ risk_trend' = _risk_trend_label(g)
    /\ pc' = "trend"
    /\ UNCHANGED <<scoreVars, tierVars, impactVars, viewVars, frameVars, portfolioVars>>

NextTrend == SnapshotTrend

SpecTrend == InitTrend /\ [][NextTrend]_vars

\* C10: with fewer than 3 weeks of history (1 or 2 observations) the trend
\* classifier returns Stable, whatever the scores.
C10_ShortHistoryIsStable ==
    (pc = "trend" /\ Len(group) < 3) => risk_trend = "Stable"

\* the rise of the score over the last three weeks of the group, which are
\* consecutive weeks: the least-squares slope through them is half of it
LastThreeRise == group[Len(group)].risk_score - group[Len(group) - 2].risk_score

\* 0.015 score per week, in units of 1/SCALE
SlopeLimit == (15 * SCALE) \div 1000

\* C11: with 3 or more weeks of history the label follows the least-squares
\* slope of the last 3 weeks: Rising iff the slope is above 0.015, Falling iff it
\* is below -0.015, Stable otherwise; a constant sequence and a slope of exactly
\* +0.015 or -0.015 are Stable.
C11_SlopeOfLastThreeWeeks ==
    (pc = "trend" /\ Len(group) >= 3) =>
        /\ risk_trend = "Rising" <=> LastThreeRise > 2 * SlopeLimit
        /\ risk_trend = "Falling" <=> LastThreeRise < -(2 * SlopeLimit)
        /\ risk_trend \in { "Rising", "Falling", "Stable" }
        /\ LastThreeRise = 0 => risk_trend = "Stable"
        /\ LastThreeRise \in { 2 * SlopeLimit, -(2 * SlopeLimit) } => risk_trend = "Stable"

\* four weeks whose last three rise by exactly 0.03 (slope 0.015) after a first
\* week far above them: Stable, the first week does not count
C11_Witness ==
    /\ pc = "trend"
    /\ Len(group) = 4
    /\ group[1].risk_score = 300000
    /\ LastThreeRise = 2 * SlopeLimit
    /\ risk_trend = "Stable"

(***************************************************************************)
(* _risk_trend_label as a function of its argument: the same rows handed   *)
(* over in any order.                                                      *)
(***************************************************************************)
\* the orders in which n rows can be handed over
RowOrders(n) ==
    { p \in [ 1..n -> 1..n ] : \A i, j \in 1..n : i # j => p[i] # p[j] }

\* the rows of g handed over in the order p
Shuffled(g, p) == [ i \in 1..Len(g) |-> g[p[i]] ]

InitTrendOrder ==
    /\ pc = "start"
    /\ PortfolioIdle
    /\ ViewIdle
    /\ FrameIdle
    /\ TrendIdle
    /\ ScoreIdle
    /\ TierIdle
    /\ ImpactIdle

\* _risk_trend_label(group) for a group whose rows come in any order
TrendOfShuffled ==
    /\ pc = "start"
    /\ \E n_weeks \in 1..MaxWeeks :
          \E g \in Groups(n_weeks), p \in RowOrders(n_weeks) :
              /\ group' = Shuffled(g, p)
              /\ risk_trend' = _risk_trend_label(Shuffled(g, p))
    /\ pc' = "shuffled"
    /\ UNCHANGED <<scoreVars, tierVars, impactVars, viewVars, frameVars, portfolioVars>>

NextTrendOrder == TrendOfShuffled

SpecTrendOrder == InitTrendOrder /\ [][NextTrendOrder]_vars

\* the row of the group that belongs to week w
RowOfWeek(w) == CHOOSE r \in { group[i] : i \in 1..Len(group) } : r.week = w

\* the rows of the group by ascending week
RowsByWeek == [ w \in 1..Len(group) |-> RowOfWeek(w) ]

\* the rise of the score from the third-largest week to the largest week
WindowRise == RowOfWeek(Len(group)).risk_score - RowOfWeek(Len(group) - 2).risk_score

\* C12: the trend label does not depend on the order in which the customer's
\* rows are supplied: every permutation of the rows gets the label of the rows in
\* week order, and the window is the 3 rows with the largest weeks, in ascending
\* week order.
C12_LabelIndependentOfRowOrder ==
    pc = "shuffled" =>
        /\ risk_trend = _risk_trend_label(RowsByWeek)
        /\ Len(group) >= 3 =>
              /\ risk_trend = "Rising" <=> WindowRise > 2 * SlopeLimit
              /\ risk_trend = "Falling" <=> WindowRise < -(2 * SlopeLimit)

\* four rows handed over with week 1 last, its score far above the others; the
\* three largest weeks rise by exactly 0.03 and the label is Stable
C12_Witness ==
    /\ pc = "shuffled"
    /\ Len(group) = 4
    /\ group[4].week = 1
    /\ group[4].risk_score = 300000
    /\ group[1].week = 4
    /\ WindowRise = 2 * SlopeLimit
    /\ risk_trend = "Stable"

(***************************************************************************)
(* Customer view tab (src/app.py 875-899)                                  *)
(*                                                                         *)
(* cust_df is the selected customer's rows by week; the scores of this     *)
(* part are whole thousandths, so that the standard deviation of the last  *)
(* four can be compared exactly: risk_std is held as its square, the       *)
(* fraction sq_num / sq_den in thousandths squared.                        *)
(***************************************************************************)
\* risk scores a customer's history may carry, in thousandths
HistoryScores == { 100, 340, 440, 700, 750 }

\* the (week, risk_score) rows of one customer over weeks 1..n_weeks
Histories(n_weeks) ==
    { [ w \in 1..n_weeks |-> [ week |-> w, risk_score |-> f[w] * MILLI ] ] :
        f \in [ 1..n_weeks -> HistoryScores ] }

\* n times the sum of squared deviations from the mean: n Sxx - Sx^2
SquaredDeviations(xs) ==
    Len(xs) * SeqSum([ i \in 1..Len(xs) |-> xs[i] * xs[i] ], 1) - SeqSum(xs, 1) * SeqSum(xs, 1)

\* a standard deviation that divides by n
std_population(xs) ==
    [ sq_num |-> SquaredDeviations(xs), sq_den |-> Len(xs) * Len(xs) ]

\* Series.std(): the sample standard deviation (ddof = 1), of two or more numbers
std(xs) ==
    [ sq_num |-> SquaredDeviations(xs), sq_den |-> Len(xs) * (Len(xs) - 1) ]

\* risk_std < limit and risk_std <= limit, limit in thousandths
StdBelow(risk_std, limit) == risk_std.sq_num < limit * limit * risk_std.sq_den
StdAtMost(risk_std, limit) == risk_std.sq_num <= limit * limit * risk_std.sq_den

\* lines 883-891
risk_stability(cust_df) ==
    LET rows == tail(sort_values_week(cust_df), 4)
        last4 == [ i \in 1..Len(rows) |-> rows[i].risk_score \div MILLI ]
        risk_std == IF Len(last4) >= 2 THEN std(last4) ELSE [ sq_num |-> 0, sq_den |-> 1 ]
    IN  [ risk_std |-> risk_std,
          stability_label |->
              IF StdBelow(risk_std, 50) THEN "High stability"
              ELSE IF StdAtMost(risk_std, 120) THEN "Medium stability"
              ELSE "Low stability" ]

\* lines 893-899
lead_time_indicator(cust_df, selected_week, score) ==
    LET prev_weeks == SelectSeq(sort_values_week(cust_df), LAMBDA r : r.week < selected_week)
        crossed_this_week ==
            /\ score > TierMediumUpTo
            /\ prev_weeks # <<>>
            /\ prev_weeks[Len(prev_weeks)].risk_score <= TierMediumUpTo
    IN  [ crossed_this_week |-> crossed_this_week,
          lead_time |-> IF crossed_this_week THEN "3 weeks (simulated)"
                        ELSE "2-4 weeks (simulated)" ]

\* a stability computed from the weeks up to the selected one
stability_history_up_to_selected(cust_df, selected_week) ==
    SelectSeq(cust_df, LAMBDA r : r.week <= selected_week)

\* line 883: the rows the stability is computed from, all of cust_df
stability_history(cust_df, selected_week) == cust_df

\* a chart loop that takes the score before the first week as above the line
high_risk_trigger_never_first(hover_df) ==
    LET crossings == { i \in 2..Len(hover_df) :
                         /\ hover_df[i].risk_score > TierMediumUpTo
                         /\ hover_df[i - 1].risk_score <= TierMediumUpTo }
    IN  IF crossings = {} THEN 0
        ELSE hover_df[CHOOSE i \in crossings : \A j \in crossings : i <= j].week

\* lines 990-998: cross_week, the week of the first row whose score is above
\* 0.7 while the row before it (0.0 before the first row) is not; 0 stands for
\* None, no annotation
high_risk_trigger(hover_df) ==
    LET crossings == { i \in 1..Len(hover_df) :
                         /\ hover_df[i].risk_score > TierMediumUpTo
                         /\ (IF i > 1 THEN hover_df[i - 1].risk_score ELSE 0) <= TierMediumUpTo }
    IN  IF crossings = {} THEN 0
        ELSE hover_df[CHOOSE i \in crossings : \A j \in crossings : i <= j].week

\* a projection that takes 5 % off whatever the tier
reduction_factor_flat(tier) == 5

\* lines 1149-1155: reduction_factor, in percent
reduction_factor(tier) ==
    IF tier = "High" THEN 40 ELSE IF tier = "Medium" THEN 20 ELSE 5

\* line 1157: score * (1 - reduction_factor); exact for a score of whole
\* thousandths
adjusted_score(score, tier) == (score * (100 - reduction_factor(tier))) \div 100

\* render_customer_tab for the customer's rows and the selected week
customer_view(cust_df, selected_week) ==
    LET selected_row == cust_df[selected_week]
        score == selected_row.risk_score
        tier == _tier(score)
        stability == risk_stability(stability_history(cust_df, selected_week))
        lead == lead_time_indicator(cust_df, selected_week, score)
    IN  [ rendered |-> TRUE,
          selected_week |-> selected_week,
          score |-> score,
          tier |-> tier,
          risk_std |-> stability.risk_std,
          stability_label |-> stability.stability_label,
          crossed_this_week |-> lead.crossed_this_week,
          lead_time |-> lead.lead_time,
          cross_week |-> high_risk_trigger(cust_df),
          adjusted_score |-> adjusted_score(score, tier),
          adjusted_tier |-> _tier(adjusted_score(score, tier)) ]

InitCustomer ==
    /\ pc = "start"
    /\ PortfolioIdle
    /\ ViewIdle
    /\ FrameIdle
    /\ TrendIdle
    /\ ScoreIdle
    /\ TierIdle
    /\ ImpactIdle

\* the script run with a customer of n_weeks weeks of history selected: the
\* snapshot's trend label for the customer (lines 1707-1708) and the customer
\* tab; the week selectbox starts at the last week (line 1733)
RenderCustomerTab ==
    /\ pc = "start"
    /\ \E n_weeks \in 1..MaxHistory :
          \E cust_df \in Histories(n_weeks) :
              /\ group' = cust_df
              /\ risk_trend' = _risk_trend_label(cust_df)
              /\ view' = customer_view(cust_df, n_weeks)
    /\ pc' = "customer"
    /\ UNCHANGED <<scoreVars, tierVars, impactVars, frameVars, portfolioVars>>

\* the user picks another week in the sidebar; Streamlit reruns the script:
\* df and the snapshot with its trend labels come from the cache
\* (@st.cache_data), the customer tab is rendered again
SelectWeek ==
    /\ pc = "customer"
    /\ \E selected_week \in 1..Len(group) :
          /\ selected_week # view.selected_week
          /\ view' = customer_view(group, selected_week)
    /\ UNCHANGED <<pc, trendVars, scoreVars, tierVars, impactVars, frameVars, portfolioVars>>

NextCustomer == RenderCustomerTab \/ SelectWeek

SpecCustomer == InitCustomer /\ [][NextCustomer]_vars

\* the weeks of the customer's last four rows
LastFourWeeks == { w \in 1..Len(group) : w > Len(group) - 4 }

RECURSIVE PairSquares(_)
\* the sum over the given pairs of weeks of the squared difference of their
\* scores, in thousandths squared
PairSquares(pairs) ==
    IF pairs = {} THEN 0
    ELSE LET p == CHOOSE q \in pairs : TRUE
             d == (group[p[1]].risk_score - group[p[2]].risk_score) \div MILLI
         IN  d * d + PairSquares(pairs \ {p})

\* n (n - 1) times the sample variance of the last four scores: the sum of the
\* squared differences of all pairs of them
LastFourSpread == PairSquares({ p \in LastFourWeeks \X LastFourWeeks : p[1] < p[2] })

\* the number of ordered pairs of distinct weeks among the last four
LastFourPairs == Cardinality(LastFourWeeks) * (Cardinality(LastFourWeeks) - 1)

\* C13: the stability label follows the sample standard deviation of the
\* customer's last 4 weekly scores: below 0.05 High stability, from 0.05 to 0.12
\* inclusive Medium stability, above 0.12 Low stability; with fewer than 2
\* observations the deviation is 0 and the label is High stability.
C13_StabilityFromLastFour ==
    view.rendered =>
        /\ Len(group) < 2 =>
              /\ view.risk_std.sq_num = 0
              /\ view.stability_label = "High stability"
        /\ Len(group) >= 2 =>
              /\ view.stability_label = "High stability"
                     <=> LastFourSpread < 50 * 50 * LastFourPairs
              /\ view.stability_label = "Medium stability"
                     <=> /\ LastFourSpread >= 50 * 50 * LastFourPairs
                         /\ LastFourSpread <= 120 * 120 * LastFourPairs
              /\ view.stability_label = "Low stability"
                     <=> LastFourSpread > 120 * 120 * LastFourPairs

\* five weeks, the first far from the rest and the last four with a sample
\* standard deviation of exactly 0.05: Medium stability
C13_Witness ==
    /\ view.rendered
    /\ Len(group) = 5
    /\ group[1].risk_score = 750 * MILLI
    /\ LastFourSpread = 50 * 50 * LastFourPairs
    /\ view.stability_label = "Medium stability"

\* the weeks of the customer's history whose score is above 0.7
WeeksAboveHigh == { w \in 1..Len(group) : group[w].risk_score > (7 * SCALE) \div 10 }

\* C27: in the trend chart the "High-risk trigger" annotation is on the
\* earliest week of the customer's history whose score exceeds 0.7, week 1
\* included, and there is none iff no week's score exceeds 0.7.
C27_TriggerOnEarliestHighWeek ==
    view.rendered =>
        /\ view.cross_week = 0 <=> WeeksAboveHigh = {}
        /\ view.cross_week # 0 =>
              /\ view.cross_week \in WeeksAboveHigh
              /\ \A w \in WeeksAboveHigh : view.cross_week <= w

\* the score is above 0.7 in week 1, falls back and rises above 0.7 again: the
\* annotation is on week 1
C27_Witness ==
    /\ view.rendered
    /\ Len(group) >= 4
    /\ view.cross_week = 1
    /\ group[2].risk_score < (7 * SCALE) \div 10
    /\ group[3].risk_score > (7 * SCALE) \div 10

\* C28: the lead-time indicator and the chart agree: the indicator reports
\* "3 weeks (simulated)" exactly when the selected week is the week that
\* carries the chart's "High-risk trigger" annotation.
C28_LeadTimeAgreesWithChart ==
    view.rendered =>
        (view.lead_time = "3 weeks (simulated)" <=> view.selected_week = view.cross_week)

\* C29: the post-intervention projection never raises the tier:
\* adjusted_score = score * (1 - r) with r = 0.40, 0.20, 0.05 for High,
\* Medium, Low; a High customer's adjusted tier is Medium, a Medium customer's
\* Low or Medium, a Low customer's Low.
C29_ProjectionNeverRaisesTier ==
    view.rendered =>
        /\ view.tier = "High" => 100 * view.adjusted_score = 60 * view.score
        /\ view.tier = "Medium" => 100 * view.adjusted_score = 80 * view.score
        /\ view.tier = "Low" => 100 * view.adjusted_score = 95 * view.score
        /\ TierRank(view.adjusted_tier) <= TierRank(view.tier)
        /\ view.tier = "High" => view.adjusted_tier = "Medium"
        /\ view.tier = "Medium" => view.adjusted_tier \in { "Low", "Medium" }
        /\ view.tier = "Low" => view.adjusted_tier = "Low"

\* a Medium customer-week (0.44) projected to Low (0.352)
C29_Witness ==
    /\ view.rendered
    /\ view.score = 440 * MILLI
    /\ view.tier = "Medium"
    /\ view.adjusted_score = 352 * MILLI
    /\ view.adjusted_tier = "Low"

\* the customer's history up to the selected week
HistoryUpToSelected == SubSeq(group, 1, view.selected_week)

\* C30: the stability label and the trend label reported for a selected
\* (customer, week) come from the last 4 and the last 3 weeks of the whole
\* history, not from the weeks up to the selected one: selecting another week
\* never changes them.
C30_LabelsFromWholeHistory ==
    /\ [](view.rendered =>
              /\ view.stability_label = risk_stability(group).stability_label
              /\ risk_trend = _risk_trend_label(group))
    /\ [][(view.rendered /\ view'.selected_week # view.selected_week) =>
              /\ view'.stability_label = view.stability_label
              /\ risk_trend' = risk_trend]_vars

\* a week before the last is selected and the weeks after it decide the
\* labels: the history up to the selected week alone would give other ones
C30_Witness ==
    /\ view.rendered
    /\ view.selected_week >= 2
    /\ view.selected_week < Len(group)
    /\ view.stability_label # risk_stability(HistoryUpToSelected).stability_label
    /\ risk_trend # _risk_trend_label(HistoryUpToSelected)

(***************************************************************************)
(* Portfolio tab: the case queue (src/app.py 198-207, 799-839)             *)
(*                                                                         *)
(* A snapshot row carries customer_id, risk_score (rounded, in units of    *)
(* 1/SCALE), risk_tier and risk_trend.  The recommended action of a queue  *)
(* entry comes from the customer's raw row, see QueueRow above; the queue  *)
(* as a whole is modelled here without it.                                 *)
(***************************************************************************)
\* risk scores of the snapshot, in thousandths
SnapshotScores == { 300, 710, 900 }

\* the snapshot rows of n_customers customers, by customer
SnapshotRows(n_customers) ==
    { [ c \in 1..n_customers |->
          [ customer_id |-> c,
            risk_score |-> sc[c] * MILLI,
            risk_tier |-> _tier(sc[c] * MILLI),
            risk_trend |-> tr[c] ] ] :
        sc \in [ 1..n_customers -> SnapshotScores ],
        tr \in [ 1..n_customers -> { "Rising", "Stable", "Falling" } ] }

\* latest.sort_values("risk_score", ascending=False): an order of the rows by
\* non-increasing score; rows of equal score may come in either order
\* (pandas sorts one column with an unstable quicksort)
SortedByScore(rows, p) ==
    \A i, j \in 1..Len(rows) : i < j => rows[p[i]].risk_score >= rows[p[j]].risk_score

\* lines 819-837: the queue entry of a snapshot row
QueueEntry(snap_row) ==
    [ customer_id |-> snap_row.customer_id,
      risk_score |-> snap_row.risk_score,
      risk_tier |-> snap_row.risk_tier,
      risk_trend |-> snap_row.risk_trend,
      channel |-> queue_channel,
      priority |-> IF snap_row.risk_trend = "Rising" THEN "P1" ELSE "P2" ]

\* an order with the larger score last within a priority
QueueOrder_score_ascending(a, b) ==
    \/ a.priority = "P1" /\ b.priority = "P2"
    \/ a.priority = b.priority /\ a.risk_score < b.risk_score

\* sort_values(["Priority", "Risk Score"], ascending=[True, False]): a comes
\* strictly before b
QueueOrder(a, b) ==
    \/ a.priority = "P1" /\ b.priority = "P2"
    \/ a.priority = b.priority /\ a.risk_score > b.risk_score

RECURSIVE InsertQueue(_, _)
\* e put into a sorted queue behind every entry it does not come before
InsertQueue(sorted, e) ==
    IF sorted = <<>> THEN <<e>>
    ELSE IF QueueOrder(e, Head(sorted)) THEN <<e>> \o sorted
    ELSE <<Head(sorted)>> \o InsertQueue(Tail(sorted), e)

RECURSIVE SortQueueFrom(_, _, _)
SortQueueFrom(entries, i, acc) ==
    IF i > Len(entries) THEN acc
    ELSE SortQueueFrom(entries, i + 1, InsertQueue(acc, entries[i]))

\* lines 810-839: the rows whose tier is High, one entry each, sorted
case_queue(latest) ==
    LET high_latest == SelectSeq(latest, LAMBDA r : r.risk_tier = "High")
        queue_rows == [ i \in 1..Len(high_latest) |-> QueueEntry(high_latest[i]) ]
    IN  SortQueueFrom(queue_rows, 1, <<>>)

InitPortfolio ==
    /\ pc = "start"
    /\ PortfolioIdle
    /\ ViewIdle
    /\ FrameIdle
    /\ TrendIdle
    /\ ScoreIdle
    /\ TierIdle
    /\ ImpactIdle

\* render_portfolio_tab(df, latest) for a portfolio of n_customers customers
RenderPortfolioTab ==
    /\ pc = "start"
    /\ \E n_customers \in 1..MaxCustomers :
          \E rows \in SnapshotRows(n_customers), p \in RowOrders(n_customers) :
              /\ SortedByScore(rows, p)
              /\ LET latest == Shuffled(rows, p)
                 IN  portfolio' = [ rendered |-> TRUE,
                                    latest |-> latest,
                                    queue_df |-> case_queue(latest) ]
    /\ pc' = "portfolio"
    /\ UNCHANGED <<scoreVars, tierVars, trendVars, impactVars, viewVars, frameVars>>

NextPortfolio == RenderPortfolioTab

SpecPortfolio == InitPortfolio /\ [][NextPortfolio]_vars

\* the entries of the queue that belong to customer c
EntriesOf(c) ==
    { i \in 1..Len(portfolio.queue_df) : portfolio.queue_df[i].customer_id = c }

\* C23: the case queue has exactly one entry for each customer whose
\* latest-week tier is High and none for the others; an entry is P1 iff the
\* customer's trend is Rising and P2 otherwise; every P1 entry precedes every
\* P2 entry and entries of equal priority are in non-increasing score order.
C23_CaseQueue ==
    portfolio.rendered =>
        LET latest == portfolio.latest
            q == portfolio.queue_df
        IN  /\ \A i \in 1..Len(latest) :
                  Cardinality(EntriesOf(latest[i].customer_id))
                      = IF latest[i].risk_tier = "High" THEN 1 ELSE 0
            /\ \A j \in 1..Len(q) :
                  \E i \in 1..Len(latest) :
                      /\ latest[i].customer_id = q[j].customer_id
                      /\ q[j].risk_score = latest[i].risk_score
                      /\ q[j].priority = "P1" <=> latest[i].risk_trend = "Rising"
                      /\ q[j].priority = "P2" <=> latest[i].risk_trend # "Rising"
            /\ \A j, k \in 1..Len(q) :
                  j < k =>
                      /\ ~(q[j].priority = "P2" /\ q[k].priority = "P1")
                      /\ q[j].priority = q[k].priority => q[j].risk_score >= q[k].risk_score

\* three customers, one of them not High; of the two in the queue the Rising
\* one comes first although its score is the lower
C23_Witness ==
    /\ portfolio.rendered
    /\ Len(portfolio.latest) = 3
    /\ Len(portfolio.queue_df) = 2
    /\ portfolio.queue_df[1].priority = "P1"
    /\ portfolio.queue_df[2].priority = "P2"
    /\ portfolio.queue_df[1].risk_score < portfolio.queue_df[2].risk_score

(***************************************************************************)
(* Impact simulation tab (src/app.py 1201-1479)                            *)
(*                                                                         *)
(* Sidebar values are held as the sliders give them: whole percents, rupees *)
(* and cases.  The derived quantities are exact, in these units:           *)
(*   defaults          1/2000 of a case  (percent x twentieths)            *)
(*   exposure at default (ead)   5 rupees                                  *)
(*   credit loss, recoveries     1/4 rupee                                 *)
(*   collection cost, net savings  1/400 rupee                             *)
(*   outreach cost               1 rupee                                   *)
(* The sliders for the intervention effects, LGD, recovery rate and uplift *)
(* move in steps of 5 %, so value \div 5 is their exact value in           *)
(* twentieths; avg_exposure is taken in multiples of 10000 rupees.         *)
(***************************************************************************)
\* the sliders' defaults (the value= argument of each widget)
SidebarDefaults ==
    [ avg_exposure |-> 50000,
      baseline_high |-> 15,
      baseline_medium |-> 7,
      collection_cost_pct |-> 18,
      eff_high |-> 40,
      eff_medium |-> 20,
      lgd_pct |-> 55,
      recovery_rate |-> 60,
      recovery_uplift |-> 10,
      cost_per_high |-> 60,
      cost_per_medium |-> 10,
      outreach_capacity |-> 120 ]

\* sliders whose capacity scale starts below zero
SidebarValues_negative_capacity ==
    [ avg_exposure |-> {10000, 50000},
      baseline_high |-> {5, 15, 40},
      baseline_medium |-> {2, 7, 25},
      collection_cost_pct |-> {5, 18, 40},
      eff_high |-> {10, 40, 70},
      eff_medium |-> {5, 20, 50},
      lgd_pct |-> {20, 55, 90},
      recovery_rate |-> {20, 60, 95},
      recovery_uplift |-> {0, 10, 30},
      cost_per_high |-> {0, 60, 500},
      cost_per_medium |-> {0, 10, 200},
      outreach_capacity |-> {-20, 20, 40, 120, 500} ]

\* for each widget: its minimum, its default, its maximum and values between,
\* all on the widget's step (avg_exposure: up to 50000 only, see above)
SidebarValues ==
    [ avg_exposure |-> {10000, 50000},
      baseline_high |-> {5, 15, 40},
      baseline_medium |-> {2, 7, 25},
      collection_cost_pct |-> {5, 18, 40},
      eff_high |-> {10, 40, 70},
      eff_medium |-> {5, 20, 50},
      lgd_pct |-> {20, 55, 90},
      recovery_rate |-> {20, 60, 95},
      recovery_uplift |-> {0, 10, 30},
      cost_per_high |-> {0, 60, 500},
      cost_per_medium |-> {0, 10, 200},
      outreach_capacity |-> {20, 40, 120, 500} ]

\* tier counts of the latest snapshot (200 customers)
HighCounts == {0, 7, 10, 30, 130}
MediumCounts == {0, 10, 50, 70}

\* the capacity split with the Medium cases served from the whole capacity
CapacitySplit_medium_unbounded(high_count, medium_count, outreach_capacity) ==
    LET contacted_high == Min(high_count, outreach_capacity)
        contacted_medium == Min(medium_count, outreach_capacity)
    IN  [ contacted_high |-> contacted_high,
          contacted_medium |-> contacted_medium,
          non_contacted_high |-> high_count - contacted_high,
          non_contacted_medium |-> medium_count - contacted_medium,
          overflow |-> Max(0, (high_count + medium_count) - outreach_capacity) ]

\* the capacity split with the Medium cases served first
CapacitySplit_medium_first(high_count, medium_count, outreach_capacity) ==
    LET contacted_medium == Min(medium_count, outreach_capacity)
        remaining_cap == outreach_capacity - contacted_medium
        contacted_high == Min(high_count, Max(0, remaining_cap))
    IN  [ contacted_high |-> contacted_high,
          contacted_medium |-> contacted_medium,
          non_contacted_high |-> high_count - contacted_high,
          non_contacted_medium |-> medium_count - contacted_medium,
          overflow |-> Max(0, (high_count + medium_count) - outreach_capacity) ]

\* the capacity split with an overflow that counts the uncontacted Medium cases only
CapacitySplit_overflow_medium_only(high_count, medium_count, outreach_capacity) ==
    LET contacted_high == Min(high_count, outreach_capacity)
        remaining_cap == outreach_capacity - contacted_high
        contacted_medium == Min(medium_count, Max(0, remaining_cap))
    IN  [ contacted_high |-> contacted_high,
          contacted_medium |-> contacted_medium,
          non_contacted_high |-> high_count - contacted_high,
          non_contacted_medium |-> medium_count - contacted_medium,
          overflow |-> medium_count - contacted_medium ]

\* lines 1268-1275
CapacitySplit(high_count, medium_count, outreach_capacity) ==
    LET contacted_high == Min(high_count, outreach_capacity)
        remaining_cap == outreach_capacity - contacted_high
        contacted_medium == Min(medium_count, Max(0, remaining_cap))
    IN  [ contacted_high |-> contacted_high,
          contacted_medium |-> contacted_medium,
          non_contacted_high |-> high_count - contacted_high,
          non_contacted_medium |-> medium_count - contacted_medium,
          overflow |-> Max(0, (high_count + medium_count) - outreach_capacity) ]

\* the reduced rate with the effect added instead of taken off: rate * (1 + eff)
ReducedRate_effect_added(baseline, eff) == baseline * (20 + eff \div 5)

\* lines 1311-1312: baseline * (1 - eff), in 1/2000
ReducedRate(baseline, eff) == baseline * (20 - eff \div 5)

\* the accepting stage rounded up to the next whole customer
AcceptingCount_rounded_up(contacted_count) == (contacted_count * 60 + 99) \div 100

\* lines 1463-1464: int(contacted_count * accepting_rate), accepting_rate = 0.60
AcceptingCount(contacted_count) == (contacted_count * 60) \div 100

\* lines 1303-1333 and 1461-1469: the report of one run of the tab
ImpactReport(high_count, medium_count, p) ==
    LET eligible_cases == high_count + medium_count
        split == CapacitySplit(high_count, medium_count, p.outreach_capacity)
        exposure == p.avg_exposure \div 10000
        \* without the engine
        defaults_wo == (high_count * p.baseline_high + medium_count * p.baseline_medium) * 20
        ead_wo == defaults_wo * exposure
        credit_loss_wo == ead_wo * (p.lgd_pct \div 5)
        recover_wo == ead_wo * (p.recovery_rate \div 5)
        collection_cost_wo == recover_wo * p.collection_cost_pct
        \* with the engine
        reduced_high == ReducedRate(p.baseline_high, p.eff_high)
        reduced_medium == ReducedRate(p.baseline_medium, p.eff_medium)
        recovery_contacted == Min(20, (p.recovery_rate + p.recovery_uplift) \div 5)
        contacted_defaults ==
            split.contacted_high * reduced_high + split.contacted_medium * reduced_medium
        non_contacted_defaults ==
            (split.non_contacted_high * p.baseline_high
               + split.non_contacted_medium * p.baseline_medium) * 20
        defaults_w == contacted_defaults + non_contacted_defaults
        contacted_ead == contacted_defaults * exposure
        non_contacted_ead == non_contacted_defaults * exposure
        ead_w == contacted_ead + non_contacted_ead
        credit_loss_w == ead_w * (p.lgd_pct \div 5)
        recover_w ==
            contacted_ead * recovery_contacted + non_contacted_ead * (p.recovery_rate \div 5)
        collection_cost_w == recover_w * p.collection_cost_pct
        outreach_cost ==
            split.contacted_high * p.cost_per_high + split.contacted_medium * p.cost_per_medium
        \* the funnel
        contacted_count == Min(eligible_cases, p.outreach_capacity)
    IN  [ rendered |-> TRUE,
          high_count |-> high_count,
          medium_count |-> medium_count,
          eligible_cases |-> eligible_cases,
          params |-> p,
          contacted_high |-> split.contacted_high,
          contacted_medium |-> split.contacted_medium,
          non_contacted_high |-> split.non_contacted_high,
          non_contacted_medium |-> split.non_contacted_medium,
          overflow |-> split.overflow,
          defaults_wo |-> defaults_wo,
          ead_wo |-> ead_wo,
          credit_loss_wo |-> credit_loss_wo,
          recover_wo |-> recover_wo,
          collection_cost_wo |-> collection_cost_wo,
          defaults_w |-> defaults_w,
          ead_w |-> ead_w,
          credit_loss_w |-> credit_loss_w,
          recover_w |-> recover_w,
          collection_cost_w |-> collection_cost_w,
          outreach_cost |-> outreach_cost,
          \* ((defaults_wo - defaults_w) / defaults_wo * 100) if defaults_wo > 0
          \* else 0, in percent, as the fraction num / den
          default_reduction_pct |->
              IF defaults_wo > 0
              THEN [ num |-> (defaults_wo - defaults_w) * 100, den |-> defaults_wo ]
              ELSE [ num |-> 0, den |-> 1 ],
          credit_loss_saved |-> credit_loss_wo - credit_loss_w,
          collection_saved |-> collection_cost_wo - collection_cost_w,
          net_savings |->
              (credit_loss_wo * 100 + collection_cost_wo)
                  - (credit_loss_w * 100 + collection_cost_w) - outreach_cost * 400,
          flagged_count |-> eligible_cases,
          contacted_count |-> contacted_count,
          accepting_count |-> AcceptingCount(contacted_count),
          \* int(contacted_high * eff_high * 0.60 + contacted_medium * eff_medium * 0.60)
          defaults_avoided |->
              ((split.contacted_high * p.eff_high + split.contacted_medium * p.eff_medium) * 60)
                  \div 10000,
          edits |-> 0 ]

SliderNames == DOMAIN SidebarDefaults

\* the first run of render_impact_tab: the tier counts of the snapshot, every
\* slider at its default
InitImpact ==
    /\ pc = "impact"
    /\ PortfolioIdle
    /\ ViewIdle
    /\ FrameIdle
    /\ \E h \in HighCounts, m \in MediumCounts : sim = ImpactReport(h, m, SidebarDefaults)
    /\ ScoreIdle
    /\ TierIdle
    /\ TrendIdle

\* the user moves one slider; Streamlit reruns the script and the tab is
\* computed again from the same tier counts
MoveSlider ==
    /\ pc = "impact"
    /\ sim.edits < MaxEdits
    /\ \E name \in SliderNames :
          \E v \in SidebarValues[name] \ {sim.params[name]} :
              sim' = [ ImpactReport(sim.high_count, sim.medium_count,
                                    [sim.params EXCEPT ![name] = v])
                         EXCEPT !.edits = sim.edits + 1 ]
    /\ UNCHANGED <<pc, scoreVars, tierVars, trendVars, viewVars, frameVars, portfolioVars>>

NextImpact == MoveSlider

SpecImpact == InitImpact /\ [][NextImpact]_vars

\* C6: contacted_high = min(high_count, capacity), contacted_medium =
\* min(medium_count, max(0, capacity - contacted_high)), the two together never
\* exceed the capacity, and overflow = max(0, high_count + medium_count -
\* capacity) >= 0.
C6_CapacityAllocation ==
    LET cap == sim.params.outreach_capacity IN
    /\ sim.contacted_high = Min(sim.high_count, cap)
    /\ sim.contacted_medium = Min(sim.medium_count, Max(0, cap - sim.contacted_high))
    /\ sim.contacted_high + sim.contacted_medium <= cap
    /\ sim.overflow = Max(0, sim.high_count + sim.medium_count - cap)
    /\ sim.overflow >= 0

\* the High cases take part of the capacity and the Medium cases do not all fit
\* in what is left
C6_Witness ==
    /\ sim.contacted_high > 0
    /\ sim.contacted_high < sim.params.outreach_capacity
    /\ sim.contacted_medium > 0
    /\ sim.contacted_medium < sim.medium_count
    /\ sim.overflow > 0

Scenario ==
    /\ sim.high_count = 30
    /\ sim.medium_count = 50
    /\ sim.params = SidebarDefaults

\* C7: for 30 High and 50 Medium cases, rates 15 % and 7 %, effects 40 % and
\* 20 %, capacity 120 and the other parameters at their defaults: contacted 30
\* and 50, no overflow, 8.0 expected defaults without the engine, 5.5 with it,
\* a default reduction of 31.25 %.
C7_ConcreteScenario ==
    Scenario =>
        /\ sim.contacted_high = 30
        /\ sim.contacted_medium = 50
        /\ sim.overflow = 0
        /\ sim.defaults_wo = 8 * 2000
        /\ 2 * sim.defaults_w = 11 * 2000
        /\ 100 * sim.default_reduction_pct.num = 3125 * sim.default_reduction_pct.den

\* the scenario itself
C7_Witness ==
    /\ Scenario
    /\ SidebarDefaults.baseline_high = 15 /\ SidebarDefaults.baseline_medium = 7
    /\ SidebarDefaults.eff_high = 40 /\ SidebarDefaults.eff_medium = 20
    /\ SidebarDefaults.outreach_capacity = 120
    /\ sim.defaults_w < sim.defaults_wo

C21_EngineNeverWorsensDefaults ==
    sim.rendered =>
        /\ sim.defaults_w <= sim.defaults_wo
        /\ sim.credit_loss_w <= sim.credit_loss_wo
        /\ sim.credit_loss_saved >= 0
        /\ sim.default_reduction_pct.den > 0
        /\ 0 <= sim.default_reduction_pct.num
        /\ sim.default_reduction_pct.num <= 100 * sim.default_reduction_pct.den

\* some High cases stay uncontacted at their baseline rate and the contacted
\* ones default less: a reduction strictly between 0 % and 100 %
C21_Witness ==
    /\ sim.rendered
    /\ sim.non_contacted_high > 0
    /\ sim.contacted_high > 0
    /\ sim.defaults_w < sim.defaults_wo
    /\ sim.credit_loss_saved > 0
    /\ 0 < sim.default_reduction_pct.num
    /\ sim.default_reduction_pct.num < 100 * sim.default_reduction_pct.den

\* C22: with-engine collection cost never exceeds without-engine collection
\* cost: the figure shown as "Collection cost saved" is never negative.
C22_CollectionCostNeverRises ==
    sim.rendered =>
        /\ sim.collection_cost_w <= sim.collection_cost_wo
        /\ sim.collection_saved >= 0

\* C24: High cases are served before Medium cases: when a Medium case is
\* contacted every High case is contacted, and when a High case is left
\* uncontacted no Medium case is contacted.
C24_HighServedBeforeMedium ==
    sim.rendered =>
        /\ sim.contacted_medium > 0 => sim.non_contacted_high = 0
        /\ sim.non_contacted_high > 0 => sim.contacted_medium = 0

\* High cases are left over while Medium cases wait, none of them contacted
C24_Witness ==
    /\ sim.rendered
    /\ sim.non_contacted_high > 0
    /\ sim.medium_count > 0
    /\ sim.contacted_medium = 0

\* C25: the per-tier allocation and the aggregate views agree: contacted_high
\* + contacted_medium is min(high_count + medium_count, capacity), the
\* "Contacted This Week" figure and the funnel's contacted stage, and
\* non_contacted_high + non_contacted_medium is the overflow.
C25_AllocationMatchesAggregates ==
    sim.rendered =>
        /\ sim.params.outreach_capacity >= 0
        /\ sim.contacted_high + sim.contacted_medium
              = Min(sim.high_count + sim.medium_count, sim.params.outreach_capacity)
        /\ sim.contacted_high + sim.contacted_medium = sim.contacted_count
        /\ sim.non_contacted_high + sim.non_contacted_medium = sim.overflow

\* the capacity ends among the High cases: uncontacted cases of both tiers
\* make up the overflow
C25_Witness ==
    /\ sim.rendered
    /\ sim.non_contacted_high > 0
    /\ sim.non_contacted_medium > 0
    /\ sim.contacted_count = sim.params.outreach_capacity
    /\ sim.overflow = sim.non_contacted_high + sim.non_contacted_medium

\* C26: the prevention funnel never widens: flagged >= contacted >= accepting
\* >= defaults avoided >= 0, with accepting = floor(0.6 contacted) and
\* defaults avoided = floor(0.6 (contacted_high eff_high + contacted_medium
\* eff_medium)).
C26_FunnelNeverWidens ==
    sim.rendered =>
        /\ sim.flagged_count >= sim.contacted_count
        /\ sim.contacted_count >= sim.accepting_count
        /\ sim.accepting_count >= sim.defaults_avoided
        /\ sim.defaults_avoided >= 0
        /\ 10 * sim.accepting_count <= 6 * sim.contacted_count
        /\ 6 * sim.contacted_count < 10 * (sim.accepting_count + 1)
        /\ 10000 * sim.defaults_avoided
              <= 60 * (sim.contacted_high * sim.params.eff_high
                         + sim.contacted_medium * sim.params.eff_medium)
        /\ 60 * (sim.contacted_high * sim.params.eff_high
                    + sim.contacted_medium * sim.params.eff_medium)
              < 10000 * (sim.defaults_avoided + 1)

\* every stage strictly narrower than the one before, the effects at the top
\* of their sliders
C26_Witness ==
    /\ sim.rendered
    /\ sim.params.eff_high = 70
    /\ sim.flagged_count > sim.contacted_count
    /\ sim.contacted_count > sim.accepting_count
    /\ sim.accepting_count > sim.defaults_avoided
    /\ sim.defaults_avoided > 0

=============================================================================
